---- MODULE Spec2Model ----
(***************************************************************************)
(* A model of the summarisation scorer (src/src/llm_analyzer.py) and of    *)
(* the report copier (src/generate_report.py).                             *)
(*                                                                         *)
(* Text is a sequence of characters; a character is a one-symbol string,   *)
(* a non-ASCII character is written by its code point ("U0442").           *)
(* A Python number is an exact fraction <<n, d>> in lowest terms, d > 0.   *)
(***************************************************************************)
EXTENDS Integers, Sequences, FiniteSets, TLC

VARIABLES
    pc,         \* scorer: "call" before the method runs, "return" after it
    op,         \* scorer: the method whose arguments were drawn
    args,       \* scorer: the arguments of the call
    ret,        \* scorer: what the call returned
    analyses,   \* report: the caller's list of records, as it is now
    original,   \* report: the records as the caller first collected them
    now,        \* report: what datetime.now() returns
    reports,    \* report: the calls of generate_comparison_report made so far
    files,      \* copier: what each path of the reports directory holds
    nruns,      \* copier: how often the script has run
    last,       \* copier: the last run of the script
    metrics_weights,    \* the analyzer's self.metrics_weights
    threads     \* threads that call the analyzer: where each is and what it holds

scorerVars == <<pc, op, args, ret>>
renderVars == <<analyses, original, now, reports>>
copierVars == <<files, nruns, last>>
vars == <<pc, op, args, ret, analyses, original, now, reports, files, nruns, last,
          metrics_weights, threads>>

-----------------------------------------------------------------------------
(* Bounds of the explored inputs. *)

MaxFrags == 3       \* fragments concatenated into one summary
MaxKeys == 2        \* length of a key_elements list handed to calculate_coverage
MaxInt == 3         \* small word counts run over -MaxInt..MaxInt
MaxRecords == 3     \* records in the list handed to generate_comparison_report
MaxCalls == 2       \* calls of generate_comparison_report in one run
MaxDays == 1        \* days the clock advances past the start of the run
MaxRuns == 2        \* runs of the report copier

-----------------------------------------------------------------------------
(* Python numbers. *)

RECURSIVE GCD(_, _)
GCD(a, b) == IF b = 0 THEN a ELSE GCD(b, a % b)

Abs(n) == IF n < 0 THEN -n ELSE n

\* the fraction n/d (d # 0) in lowest terms with a positive denominator
Rat(n, d) ==
    LET g == GCD(Abs(n), Abs(d))
        s == IF d < 0 THEN -1 ELSE 1
    IN  <<(s * n) \div g, (s * d) \div g>>

Num(n) == <<n, 1>>

RatMul(a, b) == Rat(a[1] * b[1], a[2] * b[2])

RatAdd(a, b) == Rat(a[1] * b[2] + b[1] * a[2], a[2] * b[2])

RatLe(a, b) == a[1] * b[2] <= b[1] * a[2]

\* n/d (d > 0) rounded to the nearest integer, a tie going to the even one
RoundHalfEven(n, d) ==
    LET q == n \div d
        r == n % d
    IN  IF 2 * r < d THEN q
        ELSE IF 2 * r > d THEN q + 1
        ELSE IF q % 2 = 0 THEN q ELSE q + 1

\* round(x, ndigits) for ndigits = 1 or 2 (scale = 10 or 100)
PyRound(x, scale) ==
    LET g == GCD(scale, x[2])
    IN  Rat(RoundHalfEven(x[1] * (scale \div g), x[2] \div g), scale)

\* a / b: a value, or the exception Python raises
Ok(v) == [ok |-> TRUE, v |-> v]
Raised(e) == [ok |-> FALSE, exc |-> e]

TrueDiv(a, b) == IF b = 0 THEN Raised("ZeroDivisionError") ELSE Ok(Rat(a, b))

-----------------------------------------------------------------------------
(* Python strings. *)

UpperChars ==
    <<"A", "B", "C", "D", "E", "F", "G", "H", "I", "J", "K", "L", "M",
      "N", "O", "P", "Q", "R", "S", "T", "U", "V", "W", "X", "Y", "Z",
      "U0412", "U0415", "U041A", "U041B", "U041D", "U041E", "U0420", "U0422">>

LowerChars ==
    <<"a", "b", "c", "d", "e", "f", "g", "h", "i", "j", "k", "l", "m",
      "n", "o", "p", "q", "r", "s", "t", "u", "v", "w", "x", "y", "z",
      "U0432", "U0435", "U043A", "U043B", "U043D", "U043E", "U0440", "U0442">>

LowerOf == [i \in 1..Len(UpperChars) |-> LowerChars[i]]

UpperIndex == [c \in {UpperChars[i] : i \in 1..Len(UpperChars)} |->
                  CHOOSE i \in 1..Len(UpperChars) : UpperChars[i] = c]

LowerChar(c) == IF c \in DOMAIN UpperIndex THEN LowerOf[UpperIndex[c]] ELSE c

\* str.lower()
Lower(s) == [i \in 1..Len(s) |-> LowerChar(s[i])]

\* sub in s
Contains(s, sub) ==
    \E i \in 1..(Len(s) - Len(sub) + 1) :
        \A j \in 1..Len(sub) : s[i + j - 1] = sub[j]

IsSpace(c) == c \in {" ", "\n", "\t"}

\* the least position from i on that holds whitespace, Len(s) + 1 if none does
FirstSpaceFrom(s, i) == CHOOSE j \in i..(Len(s) + 1) : j = Len(s) + 1 \/ IsSpace(s[j])

\* the least position from i on that holds sep, Len(s) + 1 if none does
FirstSepFrom(s, sep, i) == CHOOSE j \in i..(Len(s) + 1) : j = Len(s) + 1 \/ s[j] = sep

\* the words of s that start at a position of lo..hi, in order
RECURSIVE WordsIn(_, _, _)
WordsIn(s, lo, hi) ==
    IF lo > hi THEN <<>>
    ELSE IF lo = hi
    THEN IF ~IsSpace(s[lo]) /\ (lo = 1 \/ IsSpace(s[lo - 1]))
         THEN <<SubSeq(s, lo, FirstSpaceFrom(s, lo) - 1)>>
         ELSE <<>>
    ELSE LET mid == (lo + hi) \div 2
         IN  WordsIn(s, lo, mid) \o WordsIn(s, mid + 1, hi)

\* str.split(): the maximal runs of non-whitespace characters
SplitWhitespace(s) == WordsIn(s, 1, Len(s))

\* the pieces of s between separators that start at a position of lo..hi
RECURSIVE PiecesIn(_, _, _, _)
PiecesIn(s, sep, lo, hi) ==
    IF lo > hi THEN <<>>
    ELSE IF lo = hi
    THEN IF lo = 1 \/ s[lo - 1] = sep
         THEN <<SubSeq(s, lo, FirstSepFrom(s, sep, lo) - 1)>>
         ELSE <<>>
    ELSE LET mid == (lo + hi) \div 2
         IN  PiecesIn(s, sep, lo, mid) \o PiecesIn(s, sep, mid + 1, hi)

\* str.split(sep) for a one-character separator: a piece starts at the
\* beginning and after every separator, the last one possibly empty
SplitOn(s, sep) == PiecesIn(s, sep, 1, Len(s) + 1)

-----------------------------------------------------------------------------
(* LLMAnalyzer. *)

MetricNames == <<"faithfulness", "coverage", "prompt_adherence", "coherence", "compression">>

\* a weight table with one weight changed
SkewedWeights ==
    [faithfulness |-> Rat(30, 100), coverage |-> Rat(25, 100),
     prompt_adherence |-> Rat(25, 100), coherence |-> Rat(15, 100),
     compression |-> Rat(10, 100)]

\* self.metrics_weights, as __init__ sets it
InitialWeights ==
    [faithfulness |-> Rat(30, 100), coverage |-> Rat(25, 100),
     prompt_adherence |-> Rat(20, 100), coherence |-> Rat(15, 100),
     compression |-> Rat(10, 100)]

\* sum(1 for e in elements if e.lower() in summary.lower())
RECURSIVE CountFound(_, _)
CountFound(summary, elements) ==
    IF elements = <<>> THEN 0
    ELSE (IF Contains(Lower(summary), Lower(Head(elements))) THEN 1 ELSE 0)
         + CountFound(summary, Tail(elements))

\* the count with the elements compared as written
RECURSIVE CountFoundCaseSensitive(_, _)
CountFoundCaseSensitive(summary, elements) ==
    IF elements = <<>> THEN 0
    ELSE (IF Contains(Lower(summary), Head(elements)) THEN 1 ELSE 0)
         + CountFoundCaseSensitive(summary, Tail(elements))

\* coverage with the elements compared as written
CoverageCaseSensitive(summary, key_elements) ==
    IF key_elements # <<>>
    THEN Ok(RatMul(TrueDiv(CountFoundCaseSensitive(summary, key_elements),
                           Len(key_elements)).v, Num(100)))
    ELSE Ok(Num(0))

calculate_coverage(summary, key_elements) ==
    IF key_elements # <<>>
    THEN LET q == TrueDiv(CountFound(summary, key_elements), Len(key_elements))
         IN  IF q.ok THEN Ok(RatMul(q.v, Num(100))) ELSE q
    ELSE Ok(Num(0))

\* LLMAnalyzer.calculate_faithfulness, which analyze_model does not call
calculate_faithfulness(summary, source_facts) ==
    IF source_facts # <<>>
    THEN LET q == TrueDiv(CountFound(summary, source_facts), Len(source_facts))
         IN  IF q.ok THEN Ok(RatMul(q.v, Num(100))) ELSE q
    ELSE Ok(Num(0))

DefaultMinWords == 100
DefaultMaxWords == 150

Markers == <<<<"1", ".">>, <<"2", ".">>, <<"3", ".">>>>

\* prompt adherence with no partial credit for a missing structure
PromptAdherenceNoFloor(summary, word_count, min_words, max_words) ==
    LET word_score == IF min_words <= word_count /\ word_count <= max_words
                      THEN 40 ELSE 0
        structure_score == IF \A i \in 1..Len(Markers) : Contains(summary, Markers[i])
                           THEN 30 ELSE 0
    IN  word_score + structure_score + 30

\* prompt adherence with the upper word bound left out
PromptAdherenceNoMax(summary, word_count, min_words, max_words) ==
    LET word_score == IF min_words <= word_count THEN 40 ELSE 0
        structure_score == IF \A i \in 1..Len(Markers) : Contains(summary, Markers[i])
                           THEN 30 ELSE 15
    IN  word_score + structure_score + 30

calculate_prompt_adherence(summary, word_count, min_words, max_words) ==
    LET word_score == IF min_words <= word_count /\ word_count <= max_words
                      THEN 40 ELSE 0
        structure_score == IF \A i \in 1..Len(Markers) : Contains(summary, Markers[i])
                           THEN 30 ELSE 15
        style_score == 30
    IN  word_score + structure_score + style_score

\* the ratio guarded against a zero divisor only
CompressionGuardZero(source_words, summary_words) ==
    IF summary_words # 0 THEN TrueDiv(source_words, summary_words) ELSE Ok(Num(0))

calculate_compression_ratio(source_words, summary_words) ==
    IF summary_words > 0 THEN TrueDiv(source_words, summary_words) ELSE Ok(Num(0))

calculate_coherence(summary) ==
    LET sentences == SplitOn(summary, ".")
    IN  IF Len(sentences) > 2 THEN 80 ELSE 60

\* key_elements of analyze_model
KeyElements ==
    <<
    <<"1", ",", "7", "5", " ", "U0442", "U0440", "U043B", "U043D", " ", "$">>,
    <<"3", "6", "%">>,
    <<"4", "0", "%">>,
    <<"o", "3", "-", "m", "i", "n", "i">>,
    <<"D", "e", "e", "p", "S", "e", "e", "k", " ", "R", "1">>,
    <<"Q", "w", "e", "n", " ", "2", ".", "5", " ", "M", "a", "x">>,
    <<"G", "r", "o", "k">>,
    <<"Y", "a", "n", "d", "e", "x", "G", "P", "T">>,
    <<"G", "i", "g", "a", "C", "h", "a", "t">>,
    <<"C", "o", "t", "y", "p", "e">>,
    <<"H", "u", "m", "a", "n", "i", "t", "i", "e", "s", " ", "L", "a", "s", "t", " ", "E", "x", "a", "m">>,
    <<"1", "3", "%">>,
    <<"1", "2", "8", "K">>,
    <<"1", "M", " ", "U0442", "U043E", "U043A", "U0435", "U043D", "U043E", "U0432">>
    >>

DefaultSourceWords == 4200

\* source_stats.get('word_count', 4200)
SourceWordCount(source_stats) ==
    IF "word_count" \in DOMAIN source_stats THEN source_stats["word_count"]
    ELSE DefaultSourceWords

\* sum(metrics[m] * weights[m] for m in metrics), over the keys in insertion order
RECURSIVE WeightedSum(_, _, _)
WeightedSum(metrics, weights, names) ==
    IF names = <<>> THEN Num(0)
    ELSE RatAdd(RatMul(metrics[Head(names)], weights[Head(names)]),
                WeightedSum(metrics, weights, Tail(names)))

\* the record analyze_model returns, or the exception it raises
AnalyzeWith(model_name, summary, source_stats, weights) ==
    LET word_count == Len(SplitWhitespace(summary))
        coverage == calculate_coverage(summary, KeyElements)
        compression == calculate_compression_ratio(SourceWordCount(source_stats), word_count)
    IN  IF ~coverage.ok THEN coverage
        ELSE IF ~compression.ok THEN compression
        ELSE LET metrics ==
                    [faithfulness |-> Num(100),
                     coverage |-> coverage.v,
                     prompt_adherence |->
                        Num(calculate_prompt_adherence(summary, word_count,
                                                       DefaultMinWords, DefaultMaxWords)),
                     coherence |-> Num(calculate_coherence(summary)),
                     compression |-> compression.v]
                 total_score == WeightedSum(metrics, weights, MetricNames)
             IN  Ok([model |-> model_name,
                     word_count |-> word_count,
                     metrics |-> metrics,
                     total_score |-> PyRound(total_score, 100)])

\* analyze_model scoring with a weight table that has one weight changed
AnalyzeSkewed(model_name, summary, source_stats) ==
    AnalyzeWith(model_name, summary, source_stats, SkewedWeights)

\* analyze_model with the faithfulness computed from the summary, the key
\* elements taken as the facts
AnalyzeComputingFaithfulness(model_name, summary, source_stats) ==
    LET r == AnalyzeWith(model_name, summary, source_stats, metrics_weights)
        metrics == [r.v.metrics EXCEPT
                       !["faithfulness"] = calculate_faithfulness(summary, KeyElements).v]
    IN  IF ~r.ok THEN r
        ELSE Ok([r.v EXCEPT
                    !.metrics = metrics,
                    !.total_score =
                        PyRound(WeightedSum(metrics, metrics_weights, MetricNames), 100)])

analyze_model(model_name, summary, source_stats) ==
    AnalyzeWith(model_name, summary, source_stats, metrics_weights)

-----------------------------------------------------------------------------
(* LLMAnalyzer.generate_comparison_report.  The report is the sequence of   *)
(* the lines that "\n".join(report) joins; a line is kept as the fields the *)
(* f-string interpolates, each formatted as the f-string formats it.        *)

Digits == <<"0", "1", "2", "3", "4", "5", "6", "7", "8", "9">>

RECURSIVE Pow10(_)
Pow10(k) == IF k = 0 THEN 1 ELSE 10 * Pow10(k - 1)

\* n written with width digits, zero-padded (%d, %m, %Y, %H)
Padded(n, width) == [i \in 1..width |-> Digits[((n \div Pow10(width - i)) % 10) + 1]]

\* the date text with the hour of the call appended
StrftimeWithHour(t) ==
    Padded(t.day, 2) \o <<".">> \o Padded(t.month, 2) \o <<".">> \o Padded(t.year, 4)
        \o <<" ">> \o Padded(t.hour, 2)

\* t.strftime('%d.%m.%Y')
Strftime(t) ==
    Padded(t.day, 2) \o <<".">> \o Padded(t.month, 2) \o <<".">> \o Padded(t.year, 4)

Line(kind, model, text, metric, value, words) ==
    [kind |-> kind, model |-> model, text |-> text, metric |-> metric,
     value |-> value, words |-> words]

FixedLine(kind) == Line(kind, "", <<>>, "", Num(0), 0)

\* "| {model} | {total_score} | {word_count} |"
RowLine(a) == Line("row", a.model, <<>>, "", a.total_score, a.word_count)

\* "- **{metric}**: {value:.1f}"
MetricLine(metric, value) == Line("metric", "", <<>>, metric, PyRound(value, 10), 0)

\* sorted with x put before the records that score the same
InsertBeforeEqual(sorted, x) ==
    LET k == Cardinality({i \in 1..Len(sorted) :
                            ~RatLe(sorted[i].total_score, x.total_score)})
    IN  SubSeq(sorted, 1, k) \o <<x>> \o SubSeq(sorted, k + 1, Len(sorted))

\* sorted (descending by total_score) with x put after the records that score
\* at least as much
InsertDescending(sorted, x) ==
    LET k == Cardinality({i \in 1..Len(sorted) :
                            RatLe(x.total_score, sorted[i].total_score)})
    IN  SubSeq(sorted, 1, k) \o <<x>> \o SubSeq(sorted, k + 1, Len(sorted))

\* list.sort(key=lambda x: x['total_score'], reverse=True): what the list holds
\* after the sort
RECURSIVE SortDescending(_)
SortDescending(list) ==
    IF list = <<>> THEN <<>>
    ELSE InsertDescending(SortDescending(SubSeq(list, 1, Len(list) - 1)), list[Len(list)])

\* the lines of one detail subsection
DetailLines(a) ==
    <<Line("model_heading", a.model, <<>>, "", Num(0), 0)>>
        \o [k \in 1..Len(MetricNames) |-> MetricLine(MetricNames[k], a.metrics[MetricNames[k]])]
        \o <<FixedLine("blank")>>

RECURSIVE AllDetailLines(_)
AllDetailLines(list) ==
    IF list = <<>> THEN <<>> ELSE DetailLines(Head(list)) \o AllDetailLines(Tail(list))

\* the report returned for the list as the call finds it at time t, and the
\* list as the call leaves it
generate_comparison_report(list, t) ==
    LET sorted == SortDescending(list)
    IN  [report |->
            <<FixedLine("title"),
              Line("date", "", Strftime(t), "", Num(0), 0),
              FixedLine("summary_heading"),
              FixedLine("table_header"),
              FixedLine("table_rule")>>
            \o [i \in 1..Len(sorted) |-> RowLine(sorted[i])]
            \o <<FixedLine("details_heading")>>
            \o AllDetailLines(sorted),
         analyses |-> sorted]

-----------------------------------------------------------------------------
(* generate_report.py.  A path holds nothing, a directory or a regular file *)
(* with its content; the generated report's path never holds a directory.   *)

base_report == "reports/FINAL_STRUCTURED_REPORT.md"
generated_report == "reports/FINAL_STRUCTURED_REPORT_GENERATED.md"

Absent == [kind |-> "absent", data |-> <<>>]
Directory == [kind |-> "dir", data |-> <<>>]
File(data) == [kind |-> "file", data |-> data]

\* os.path.exists(path)
Exists(fs, path) == fs[path].kind # "absent"

\* what can go wrong in a copy: nothing, the source cannot be opened, the
\* destination cannot be opened, the write stops after n characters, or the
\* file is written and its metadata cannot be copied
Faults(fs, src) ==
    {[at |-> "none", n |-> 0], [at |-> "open_src", n |-> 0],
     [at |-> "open_dst", n |-> 0], [at |-> "copystat", n |-> 0]}
        \cup {[at |-> "write", n |-> k] : k \in 0..(Len(fs[src].data) - 1)}

\* shutil.copy2(src, dst): the files afterwards, and the exception if any
Copy2(fs, src, dst, fault) ==
    IF fs[src].kind = "absent" THEN [fs |-> fs, exc |-> "FileNotFoundError"]
    ELSE IF fs[src].kind = "dir" THEN [fs |-> fs, exc |-> "IsADirectoryError"]
    ELSE IF fault.at \in {"open_src", "open_dst"} THEN [fs |-> fs, exc |-> "PermissionError"]
    ELSE IF fault.at = "write"
    THEN [fs |-> [fs EXCEPT ![dst] = File(SubSeq(fs[src].data, 1, fault.n))],
          exc |-> "OSError"]
    ELSE IF fault.at = "copystat"
    THEN [fs |-> [fs EXCEPT ![dst] = File(fs[src].data)], exc |-> "PermissionError"]
    ELSE [fs |-> [fs EXCEPT ![dst] = File(fs[src].data)], exc |-> "none"]

\* the exceptions that "except Exception" catches
Exceptions == {"FileNotFoundError", "IsADirectoryError", "PermissionError", "OSError"}

\* the body of generate()'s try block
GenerateBody(fs, fault) ==
    IF ~Exists(fs, base_report) THEN [fs |-> fs, ret |-> FALSE, exc |-> "none"]
    ELSE LET copied == Copy2(fs, base_report, generated_report, fault)
         IN  [fs |-> copied.fs, ret |-> copied.exc = "none", exc |-> copied.exc]

\* generate() copying without a look at the base report and reporting success
\* whatever the copy did
GenerateIgnoringErrors(fs, fault) ==
    LET copied == Copy2(fs, base_report, generated_report, fault)
    IN  [fs |-> copied.fs, ret |-> TRUE, exc |-> "none"]

\* ReportGenerator.generate(): the files afterwards, the value returned and the
\* exception that leaves the method, if any
generate(fs, fault) ==
    LET body == GenerateBody(fs, fault)
    IN  IF body.exc \in Exceptions
        THEN [fs |-> body.fs, ret |-> FALSE, exc |-> "none"]
        ELSE body

\* main(): the run with its exit code
main(fs, fault) ==
    LET g == generate(fs, fault)
    IN  [before |-> fs, after |-> g.fs, ret |-> g.ret, exc |-> g.exc,
         code |-> IF g.exc \in Exceptions THEN 1 ELSE IF g.ret THEN 0 ELSE 1]

-----------------------------------------------------------------------------
(* The scorer's methods, each called once on arguments drawn at the start. *)

\* the text "w w w ... ", sixty words: two of them fall within the default
\* word bounds and three exceed them
Words60 == [i \in 1..120 |-> IF i % 2 = 1 THEN "w" ELSE " "]

SummaryFragments ==
    {<<"1", ".">>, <<"2", ".">>, <<"3", ".">>,
     <<"G", "R", "O", "K", "\n">>, <<"3", "6", "%">>, Words60}

MarkerFragments == {<<"1", ".">>, <<"2", ".">>, <<"3", ".">>, <<"x">>}

CoverageFragments == {<<"G", "R", "O", "K">>, <<"g", "r", "o", "k">>, <<"3", "6", "%">>, <<" ">>}

KeyPool == {<<"G", "r", "o", "k">>, <<"3", "6", "%">>, <<"4", "0", "%">>}

\* the texts made of at most n fragments
RECURSIVE Texts(_, _)
Texts(frags, n) ==
    IF n = 0 THEN {<<>>}
    ELSE LET shorter == Texts(frags, n - 1)
         IN  shorter \cup {t \o f : t \in shorter, f \in frags}

\* the lists of at most n elements of pool
RECURSIVE Lists(_, _)
Lists(pool, n) ==
    IF n = 0 THEN {<<>>}
    ELSE LET shorter == Lists(pool, n - 1)
         IN  shorter \cup {Append(l, e) : l \in shorter, e \in pool}

WordCounts == {-1, 0, 50, 99, 100, 120, 150, 151}

WordBounds == {<<DefaultMinWords, DefaultMaxWords>>, <<0, 50>>, <<151, 99>>}

Counts == (-MaxInt..MaxInt) \cup {300, 4200}

ModelNames == {"Claude 3.5 Sonnet", "Groq Llama3-8B"}

\* source_stats: a mapping that may lack word_count
SourceStatsSamples ==
    {<<>>} \cup {[k \in {"word_count"} |-> n] : n \in {4200, 0, -MaxInt}}

NoReturn == Raised("not called")

InitCoverage ==
    /\ op = "calculate_coverage"
    /\ \E s \in Texts(CoverageFragments, MaxFrags), k \in Lists(KeyPool, MaxKeys) :
          args = [summary |-> s, key_elements |-> k]

InitPromptAdherence ==
    /\ op = "calculate_prompt_adherence"
    /\ \E s \in Texts(MarkerFragments, MaxFrags), w \in WordCounts, b \in WordBounds :
          args = [summary |-> s, word_count |-> w, min_words |-> b[1], max_words |-> b[2]]

InitCompression ==
    /\ op = "calculate_compression_ratio"
    /\ \E a \in Counts, b \in Counts :
          args = [source_words |-> a, summary_words |-> b]

InitCoherence ==
    /\ op = "calculate_coherence"
    /\ \E s \in Texts(SummaryFragments, MaxFrags) : args = [summary |-> s]

InitAnalyze ==
    /\ op = "analyze_model"
    /\ \E m \in ModelNames, s \in Texts(SummaryFragments, MaxFrags),
          st \in SourceStatsSamples :
          args = [model_name |-> m, summary |-> s, source_stats |-> st]

NoFiles == [p \in {base_report, generated_report} |-> Absent]

NoRun == [before |-> NoFiles, after |-> NoFiles, ret |-> FALSE, exc |-> "none", code |-> 1]

StartOfRun == [year |-> 2026, month |-> 11, day |-> 6, hour |-> 0]

Init ==
    /\ metrics_weights = InitialWeights
    /\ pc = "call"
    /\ ret = NoReturn
    /\ analyses = <<>> /\ original = <<>> /\ now = StartOfRun /\ reports = <<>>
    /\ files = NoFiles /\ nruns = 0 /\ last = NoRun
    /\ threads = <<>>
    /\ \/ InitCoverage
       \/ InitPromptAdherence
       \/ InitCompression
       \/ InitCoherence
       \/ InitAnalyze

Return(value) ==
    /\ pc = "call"
    /\ pc' = "return"
    /\ ret' = value
    /\ UNCHANGED <<op, args>>
    /\ UNCHANGED <<renderVars, copierVars, metrics_weights, threads>>

CallCoverage ==
    /\ op = "calculate_coverage"
    /\ Return(calculate_coverage(args.summary, args.key_elements))

CallPromptAdherence ==
    /\ op = "calculate_prompt_adherence"
    /\ Return(Ok(Num(calculate_prompt_adherence(args.summary, args.word_count,
                                                args.min_words, args.max_words))))

CallCompression ==
    /\ op = "calculate_compression_ratio"
    /\ Return(calculate_compression_ratio(args.source_words, args.summary_words))

CallCoherence ==
    /\ op = "calculate_coherence"
    /\ Return(Ok(Num(calculate_coherence(args.summary))))

CallAnalyzeModel ==
    /\ op = "analyze_model"
    /\ Return(analyze_model(args.model_name, args.summary, args.source_stats))

Next ==
    \/ CallCoverage
    \/ CallPromptAdherence
    \/ CallCompression
    \/ CallCoherence
    \/ CallAnalyzeModel

Spec == Init /\ [][Next]_vars

-----------------------------------------------------------------------------
(* A caller that collects records as main() does, one analyze_model result  *)
(* per model, and has reports generated from the list while time passes.    *)

ReportModels == <<"Claude 3.5 Sonnet", "Groq Llama3-8B", "Model C", "Model D", "Model E">>

SampleSummaries == {<<>>, <<"3", "6", "%">>, <<"1", ".", "2", ".", "3", ".">>}

\* the lists of n records, the i-th one the analysis of the i-th model
RecordLists(n) ==
    {[i \in 1..n |-> analyze_model(ReportModels[i], f[i], <<>>).v] :
        f \in [1..n -> SampleSummaries]}

InitRender ==
    /\ metrics_weights = InitialWeights
    /\ pc = "idle" /\ op = "none" /\ args = <<>> /\ ret = NoReturn
    /\ \E n \in 0..MaxRecords : analyses \in RecordLists(n)
    /\ original = analyses
    /\ now = StartOfRun
    /\ reports = <<>>
    /\ files = NoFiles /\ nruns = 0 /\ last = NoRun
    /\ threads = <<>>

\* report = analyzer.generate_comparison_report(analyses)
GenerateComparisonReport ==
    /\ Len(reports) < MaxCalls
    /\ LET r == generate_comparison_report(analyses, now)
       IN  /\ analyses' = r.analyses
           /\ reports' = Append(reports, [passed |-> analyses, at |-> now,
                                          out |-> r.report, left |-> r.analyses])
    /\ UNCHANGED <<original, now>>
    /\ UNCHANGED <<scorerVars, copierVars, metrics_weights, threads>>

\* the caller collects the same records again, in the order it first had them
Recollect ==
    /\ analyses # original
    /\ analyses' = original
    /\ UNCHANGED <<original, now, reports>>
    /\ UNCHANGED <<scorerVars, copierVars, metrics_weights, threads>>

\* half a day passes
Tick ==
    /\ now.day < StartOfRun.day + MaxDays
    /\ now' = IF now.hour + 12 >= 24
              THEN [now EXCEPT !.day = @ + 1, !.hour = (@ + 12) % 24]
              ELSE [now EXCEPT !.hour = @ + 12]
    /\ UNCHANGED <<analyses, original, reports>>
    /\ UNCHANGED <<scorerVars, copierVars, metrics_weights, threads>>

NextRender ==
    \/ GenerateComparisonReport
    \/ Recollect
    \/ Tick

SpecRender == InitRender /\ [][NextRender]_vars

-----------------------------------------------------------------------------
(* The report copier run as a script, the files edited between its runs. *)

ReportTexts == {<<>>, <<"r", "1">>, <<"r", "2">>}

InitCopier ==
    /\ metrics_weights = InitialWeights
    /\ pc = "idle" /\ op = "none" /\ args = <<>> /\ ret = NoReturn
    /\ analyses = <<>> /\ original = <<>> /\ now = StartOfRun /\ reports = <<>>
    /\ \E b \in {Absent, Directory} \cup {File(t) : t \in ReportTexts},
          g \in {Absent} \cup {File(t) : t \in ReportTexts} :
          files = [p \in {base_report, generated_report} |->
                      IF p = base_report THEN b ELSE g]
    /\ nruns = 0
    /\ last = NoRun
    /\ threads = <<>>

\* sys.exit(main())
RunMain ==
    /\ nruns < MaxRuns
    /\ \E fault \in Faults(files, base_report) :
          LET run == main(files, fault)
          IN  /\ last' = run
              /\ files' = run.after
    /\ nruns' = nruns + 1
    /\ UNCHANGED <<scorerVars, renderVars, metrics_weights, threads>>

\* someone rewrites or removes the base report between two runs
EditBaseReport ==
    /\ nruns < MaxRuns
    /\ \E b \in {Absent} \cup {File(t) : t \in ReportTexts} :
          /\ b # files[base_report]
          /\ files' = [files EXCEPT ![base_report] = b]
    /\ UNCHANGED <<nruns, last>>
    /\ UNCHANGED <<scorerVars, renderVars, metrics_weights, threads>>

NextCopier ==
    \/ RunMain
    \/ EditBaseReport

SpecCopier == InitCopier /\ [][NextCopier]_vars


-----------------------------------------------------------------------------
(* Threads that call one analyzer without locking.  A thread runs           *)
(* analyze_model, or generate_comparison_report on the list all threads     *)
(* share.  Threads switch between bytecodes: while list.sort calls the key  *)
(* function the list being sorted appears empty to every thread, and a list *)
(* found changed at the end of the sort makes the sort raise ValueError;    *)
(* each step of a for loop reads the list anew.                             *)

Threads == {1, 2}

ReportHead(t) ==
    <<FixedLine("title"), Line("date", "", Strftime(t), "", Num(0), 0)>>

TableHead ==
    <<FixedLine("summary_heading"), FixedLine("table_header"), FixedLine("table_rule")>>

NewThread(kind, summary) ==
    [kind |-> kind, pc |-> "start", summary |-> summary, saved |-> <<>>, i |-> 0,
     lines |-> <<>>, result |-> NoReturn]

InitThreads ==
    /\ metrics_weights = InitialWeights
    /\ pc = "idle" /\ op = "none" /\ args = <<>> /\ ret = NoReturn
    /\ \E n \in 1..MaxRecords : analyses \in RecordLists(n)
    /\ original = analyses
    /\ now = StartOfRun
    /\ reports = <<>>
    /\ files = NoFiles /\ nruns = 0 /\ last = NoRun
    /\ \E kinds \in [Threads -> {"render", "analyze"}], summary \in SampleSummaries :
          threads = [t \in Threads |-> NewThread(kinds[t], summary)]

ThreadFrame == UNCHANGED <<scorerVars, original, now, reports, copierVars, metrics_weights>>

\* analyze_model, which reads self.metrics_weights and its arguments only
ThreadAnalyze(t) ==
    /\ threads[t].kind = "analyze" /\ threads[t].pc = "start"
    /\ threads' = [threads EXCEPT
          ![t].result = analyze_model(ReportModels[t], threads[t].summary, <<>>),
          ![t].pc = "done"]
    /\ UNCHANGED analyses
    /\ ThreadFrame

\* lines 171-173: the title and the date line
RenderBegin(t) ==
    /\ threads[t].kind = "render" /\ threads[t].pc = "start"
    /\ threads' = [threads EXCEPT ![t].lines = ReportHead(now), ![t].pc = "sort"]
    /\ UNCHANGED analyses
    /\ ThreadFrame

\* line 176, analyses.sort entered: the sort takes the items out of the list;
\* with no item there is no key to compute and the sort is over at once
SortBegin(t) ==
    /\ threads[t].kind = "render" /\ threads[t].pc = "sort"
    /\ analyses' = <<>>
    /\ threads' = [threads EXCEPT
          ![t].saved = analyses,
          ![t].lines = IF analyses = <<>> THEN @ \o TableHead ELSE @,
          ![t].i = 1,
          ![t].pc = IF analyses = <<>> THEN "rows" ELSE "sorting"]
    /\ ThreadFrame

\* line 176, analyses.sort left: the sorted items are put back; lines 178-180
SortEnd(t) ==
    /\ threads[t].kind = "render" /\ threads[t].pc = "sorting"
    /\ analyses' = SortDescending(threads[t].saved)
    /\ threads' = [threads EXCEPT
          ![t].saved = <<>>,
          ![t].lines = IF analyses = <<>> THEN @ \o TableHead ELSE @,
          ![t].result = IF analyses = <<>> THEN @ ELSE Raised("ValueError"),
          ![t].pc = IF analyses = <<>> THEN "rows" ELSE "done"]
    /\ ThreadFrame

\* lines 182-187: one step of the loop over the table rows
RowStep(t) ==
    /\ threads[t].kind = "render" /\ threads[t].pc = "rows"
    /\ threads' = [threads EXCEPT
          ![t].lines = IF threads[t].i <= Len(analyses)
                       THEN Append(@, RowLine(analyses[threads[t].i]))
                       ELSE Append(@, FixedLine("details_heading")),
          ![t].i = IF threads[t].i <= Len(analyses) THEN @ + 1 ELSE 1,
          ![t].pc = IF threads[t].i <= Len(analyses) THEN "rows" ELSE "details"]
    /\ UNCHANGED analyses
    /\ ThreadFrame

\* lines 189-195: one step of the loop over the detail subsections
DetailStep(t) ==
    /\ threads[t].kind = "render" /\ threads[t].pc = "details"
    /\ threads' = [threads EXCEPT
          ![t].lines = IF threads[t].i <= Len(analyses)
                       THEN @ \o DetailLines(analyses[threads[t].i])
                       ELSE @,
          ![t].i = IF threads[t].i <= Len(analyses) THEN @ + 1 ELSE @,
          ![t].result = IF threads[t].i <= Len(analyses) THEN @ ELSE Ok(threads[t].lines),
          ![t].pc = IF threads[t].i <= Len(analyses) THEN "details" ELSE "done"]
    /\ UNCHANGED analyses
    /\ ThreadFrame

NextThreads ==
    \E t \in Threads :
        \/ ThreadAnalyze(t)
        \/ RenderBegin(t)
        \/ SortBegin(t)
        \/ SortEnd(t)
        \/ RowStep(t)
        \/ DetailStep(t)

SpecThreads == InitThreads /\ [][NextThreads]_vars

-----------------------------------------------------------------------------
(* Properties of the scorer. *)

Returned(method) == pc = "return" /\ op = method

FiveMetrics == {"faithfulness", "coverage", "prompt_adherence", "coherence", "compression"}

\* the weighted sum of the claim, written out with its fixed weights
FixedWeightSum(m) ==
    RatAdd(RatMul(m["faithfulness"], Rat(30, 100)),
    RatAdd(RatMul(m["coverage"], Rat(25, 100)),
    RatAdd(RatMul(m["prompt_adherence"], Rat(20, 100)),
    RatAdd(RatMul(m["coherence"], Rat(15, 100)),
           RatMul(m["compression"], Rat(10, 100))))))

\* C1: every record analyze_model returns has a metrics mapping with exactly
\* the five metric keys, and its total_score is the sum of metric times fixed
\* weight over those keys, rounded to two decimals.
C1_TotalIsRoundedWeightedSum ==
    Returned("analyze_model") =>
        /\ ret.ok
        /\ DOMAIN ret.v.metrics = FiveMetrics
        /\ ret.v.total_score = PyRound(FixedWeightSum(ret.v.metrics), 100)

\* a record whose compression and coverage are not whole numbers and whose
\* weighted sum has to be rounded
C1_Witness ==
    /\ Returned("analyze_model")
    /\ ret.ok
    /\ ret.v.metrics["coverage"][2] # 1
    /\ ret.v.metrics["compression"][2] # 1
    /\ ret.v.metrics["prompt_adherence"] = Num(85)
    /\ ret.v.total_score # FixedWeightSum(ret.v.metrics)

HasAllMarkers(s) ==
    /\ Contains(s, <<"1", ".">>)
    /\ Contains(s, <<"2", ".">>)
    /\ Contains(s, <<"3", ".">>)

HasNoMarker(s) ==
    /\ ~Contains(s, <<"1", ".">>)
    /\ ~Contains(s, <<"2", ".">>)
    /\ ~Contains(s, <<"3", ".">>)

DefaultBounds == args.min_words = 100 /\ args.max_words = 150

\* C2, as claimed: with the default bounds the prompt adherence is never
\* below 15 nor above 100, and is 15 for 50 words and no marker.
C2_Original ==
    (Returned("calculate_prompt_adherence") /\ DefaultBounds) =>
        /\ RatLe(Num(15), ret.v) /\ RatLe(ret.v, Num(100))
        /\ (args.word_count = 50 /\ HasNoMarker(args.summary)) => ret.v = Num(15)

\* C2, amended: with the default bounds the prompt adherence is never below
\* 45 nor above 100, and is 45 for 50 words and a summary without the markers.
C2_Between45And100 ==
    (Returned("calculate_prompt_adherence") /\ DefaultBounds) =>
        /\ ret.ok
        /\ RatLe(Num(45), ret.v) /\ RatLe(ret.v, Num(100))
        /\ (args.word_count = 50 /\ HasNoMarker(args.summary)) => ret.v = Num(45)

C2_Witness ==
    /\ Returned("calculate_prompt_adherence") /\ DefaultBounds
    /\ args.word_count = 50 /\ HasNoMarker(args.summary) /\ args.summary # <<>>
    /\ ret.v = Num(45)

\* C6, as claimed: the compression ratio is source_words / summary_words for
\* every summary_words other than 0, negative ones included, it is 0 when
\* summary_words is 0 and otherwise only as the value of the quotient, and the
\* call never fails.
C6_Original ==
    Returned("calculate_compression_ratio") =>
        /\ ret.ok
        /\ args.summary_words # 0 =>
              ret.v[1] * args.summary_words = args.source_words * ret.v[2]
        /\ args.summary_words = 0 => ret.v = Num(0)
        /\ ret.v = Num(0) => (args.summary_words = 0 \/ args.source_words = 0)

\* C6, amended: the compression ratio is source_words / summary_words for
\* every summary_words above 0 (a negative source_words propagates), it is 0
\* for every summary_words of 0 or less, and the call never fails;
\* (4200, 0) gives 0 and (4200, 300) gives 14.
C6_RatioForPositiveDivisor ==
    Returned("calculate_compression_ratio") =>
        /\ ret.ok
        /\ args.summary_words > 0 =>
              ret.v[1] * args.summary_words = args.source_words * ret.v[2]
        /\ args.summary_words <= 0 => ret.v = Num(0)
        /\ (args.source_words = 4200 /\ args.summary_words = 0) => ret.v = Num(0)
        /\ (args.source_words = 4200 /\ args.summary_words = 300) => ret.v = Num(14)

\* a negative divisor, where the claimed ratio and the returned 0 part
C6_Witness ==
    /\ Returned("calculate_compression_ratio")
    /\ args.summary_words < 0 /\ args.source_words > 0
    /\ ret.v = Num(0)

\* the positions of key_elements whose lowercase form occurs in the
\* lowercased summary
CoveredPositions ==
    {i \in 1..Len(args.key_elements) :
        Contains(Lower(args.summary), Lower(args.key_elements[i]))}

\* C7: the coverage is 100 times the fraction of key elements whose lowercase
\* form is a substring of the lowercased summary; it lies in 0..100, is 0 when
\* none occurs and 100 when all occur, and is 0 for an empty list.
C7_CoverageIsFraction ==
    Returned("calculate_coverage") =>
        /\ ret.ok
        /\ ret.v[1] * Len(args.key_elements) = 100 * Cardinality(CoveredPositions) * ret.v[2]
        /\ RatLe(Num(0), ret.v) /\ RatLe(ret.v, Num(100))
        /\ CoveredPositions = {} => ret.v = Num(0)
        /\ (args.key_elements # <<>> /\ CoveredPositions = 1..Len(args.key_elements))
              => ret.v = Num(100)
        /\ args.key_elements = <<>> => ret.v = Num(0)

\* an element found only because both sides are lowercased, beside one absent
C7_Witness ==
    /\ Returned("calculate_coverage")
    /\ Len(args.key_elements) = 2
    /\ Cardinality(CoveredPositions) = 1
    /\ \E i \in CoveredPositions :
          /\ ~Contains(args.summary, args.key_elements[i])
          /\ ~Contains(Lower(args.summary), args.key_elements[i])
    /\ ret.v = Num(50)

WordsInRange(w) == args.min_words <= w /\ w <= args.max_words

\* the three parts of the claim
ThreeParts(s, w) ==
    (IF WordsInRange(w) THEN 40 ELSE 0) + (IF HasAllMarkers(s) THEN 30 ELSE 15) + 30

\* the summaries one fragment longer than s, and s itself
OneMore(s) == {s} \cup {s \o f : f \in MarkerFragments}

\* C8: the prompt adherence is the sum of 40 for a word count within the
\* bounds (else 0), 30 for a summary with all three markers (else 15) and a
\* constant 30; it is 100 for 120 words and all markers under the default
\* bounds; and a call that differs in one condition turned from false to true
\* never scores lower.
C8_ThreePartSum ==
    Returned("calculate_prompt_adherence") =>
        /\ ret.ok
        /\ ret.v = Num(ThreeParts(args.summary, args.word_count))
        /\ (DefaultBounds /\ args.word_count = 120 /\ HasAllMarkers(args.summary))
              => ret.v = Num(100)
        /\ \A w \in WordCounts :
              (~WordsInRange(args.word_count) /\ WordsInRange(w)) =>
                 RatLe(ret.v, Num(calculate_prompt_adherence(
                                    args.summary, w, args.min_words, args.max_words)))
        /\ \A s \in OneMore(args.summary) :
              (~HasAllMarkers(args.summary) /\ HasAllMarkers(s)) =>
                 RatLe(ret.v, Num(calculate_prompt_adherence(
                                    s, args.word_count, args.min_words, args.max_words)))

\* a call above the upper word bound, one fragment short of the third marker
C8_Witness ==
    /\ Returned("calculate_prompt_adherence")
    /\ DefaultBounds /\ args.word_count = 151
    /\ ~HasAllMarkers(args.summary)
    /\ \E s \in OneMore(args.summary) : HasAllMarkers(s)
    /\ ret.v = Num(45)

\* the positions of s where a whitespace-separated token starts
TokenStarts(s) ==
    {i \in 1..Len(s) : ~IsSpace(s[i]) /\ (i = 1 \/ IsSpace(s[i - 1]))}

\* C11: in every record analyze_model returns the faithfulness is 100 whatever
\* the summary, word_count is the number of whitespace-separated tokens of the
\* summary, the prompt adherence is the one of that word_count, the
\* compression is the source word count divided by that word_count, and a
\* summary without a token gives compression 0, not a failure.
C11_ConstantFaithfulnessOneWordCount ==
    Returned("analyze_model") =>
        /\ ret.ok
        /\ ret.v.metrics["faithfulness"] = Num(100)
        /\ ret.v.word_count = Cardinality(TokenStarts(args.summary))
        /\ ret.v.metrics["prompt_adherence"] =
              Num(calculate_prompt_adherence(args.summary, ret.v.word_count, 100, 150))
        /\ ret.v.word_count > 0 =>
              ret.v.metrics["compression"][1] * ret.v.word_count
                 = SourceWordCount(args.source_stats) * ret.v.metrics["compression"][2]
        /\ ret.v.word_count = 0 => ret.v.metrics["compression"] = Num(0)

\* the empty summary: no key element in it, no token, and yet faithfulness
\* 100 and compression 0
C11_Witness ==
    /\ Returned("analyze_model")
    /\ args.summary = <<>>
    /\ ret.ok
    /\ ret.v.word_count = 0
    /\ ret.v.metrics["faithfulness"] = Num(100)
    /\ ret.v.metrics["coverage"] = Num(0)
    /\ ret.v.metrics["compression"] = Num(0)

\* a summary whose word count falls within the default bounds and does not
\* divide the source word count
C11_WordsInBounds ==
    /\ Returned("analyze_model")
    /\ ret.ok
    /\ ret.v.word_count > 100
    /\ ret.v.metrics["prompt_adherence"] = Num(85)
    /\ ret.v.metrics["compression"][2] # 1

-----------------------------------------------------------------------------
(* Properties of generate_comparison_report. *)

Calls == 1..Len(reports)

\* C3, as claimed: a call leaves the caller's list as it found it, the same
\* records in the same order.
C3_ListUntouched ==
    \A c \in Calls : reports[c].left = reports[c].passed

\* the lines of a report of one kind, in order
LinesOfKind(report, kind) == SelectSeq(report, LAMBDA line : line.kind = kind)

Rows(c) == LinesOfKind(reports[c].out, "row")

Headings(c) == LinesOfKind(reports[c].out, "model_heading")

\* the rows that show the model
RowsOf(rows, model) == {k \in 1..Len(rows) : rows[k].model = model}

\* C4: the table has one row per record of the input, the rows descend by
\* total_score, records that score the same keep their order from the input,
\* and the detail subsections come in the order of the rows.
C4_RankedStableRows ==
    \A c \in Calls :
        LET input == reports[c].passed
            rows == Rows(c)
            heads == Headings(c)
            at == [i \in 1..Len(input) |-> RowsOf(rows, input[i].model)]
        IN  /\ Len(rows) = Len(input)
            /\ \A i \in 1..Len(input) :
                  /\ Cardinality(at[i]) = 1
                  /\ \A k \in at[i] : /\ rows[k].value = input[i].total_score
                                      /\ rows[k].words = input[i].word_count
            /\ \A k \in 1..(Len(rows) - 1) : RatLe(rows[k + 1].value, rows[k].value)
            /\ \A i, j \in 1..Len(input) :
                  (i < j /\ input[i].total_score = input[j].total_score)
                     => \A k \in at[i], l \in at[j] : k < l
            /\ Len(heads) = Len(rows)
            /\ \A k \in 1..Len(rows) : heads[k].model = rows[k].model

\* a list with a tie ahead of a higher score: the sort has to move the third
\* record to the front and keep the first two in order
C4_Witness ==
    \E c \in Calls :
        LET input == reports[c].passed
            rows == Rows(c)
        IN  /\ Len(input) = 3
            /\ input[1].total_score = input[2].total_score
            /\ ~RatLe(input[3].total_score, input[1].total_score)
            /\ rows[1].model = input[3].model
            /\ rows[2].model = input[1].model
            /\ rows[3].model = input[2].model

SameDate(t, u) == t.year = u.year /\ t.month = u.month /\ t.day = u.day

-----------------------------------------------------------------------------
(* Properties of the report copier. *)

HasRun == nruns > 0

-----------------------------------------------------------------------------
(* Properties of concurrent calls. *)

\* what the call of thread t returns when it runs alone
Alone(t) ==
    IF threads[t].kind = "analyze"
    THEN AnalyzeWith(ReportModels[t], threads[t].summary, <<>>, InitialWeights)
    ELSE Ok(generate_comparison_report(original, now).report)

\* C10, as claimed: no call writes to the weight table, and every call that
\* runs concurrently with others, also on a shared list, returns what it
\* returns when it runs alone.
C10_SameAsAlone ==
    /\ metrics_weights = InitialWeights
    /\ \A t \in Threads : threads[t].pc = "done" => threads[t].result = Alone(t)

\* stepwise and whole-call rendering agree for a thread that is not disturbed
SoloStepsAgree ==
    \A t \in Threads :
        (threads[t].pc = "done" /\ \A u \in Threads \ {t} : threads[u].kind = "analyze")
            => threads[t].result = Alone(t)

====
